---- MODULE Spec2Model ----
(***************************************************************************)
(* Response rewriting of prom-label-proxy (injectproxy/rules.go): the      *)
(* envelope codec getAPIResponse, the interception pipeline                *)
(* modifyAPIResponse and the two transforms routes.filterRules and         *)
(* routes.filterAlerts.                                                    *)
(*                                                                         *)
(* Conventions.  A Go pointer is a sequence of length 0 (nil) or 1.  A Go  *)
(* error is the sequence of the messages of its wrap chain, outermost      *)
(* first; << >> is the nil error.  A JSON object is a record with the      *)
(* lower-case keys of the wire form, a Go struct a record with the field   *)
(* names of the source.  labels.Labels and a JSON labels object are both   *)
(* a set of <<name, value>> pairs.                                         *)
(***************************************************************************)
EXTENDS Integers, Sequences, FiniteSets, TLC

VARIABLES
    r,        \* the routes configuration read by the transforms
    lvalues,  \* the caller's allowed values of the enforced label
    route,    \* which transform serves the intercepted endpoint
    apir,     \* the envelope handed to the transform (<< >>: none yet)
    ret,      \* what the transform returned (<< >>: not invoked)
    resp,     \* the backend response being rewritten
    entry,    \* the response as it was when the rewrite function was entered
    rerr,     \* the error returned by the rewrite function
    pc        \* position of the request

vars == <<r, lvalues, route, apir, ret, resp, entry, rerr, pc>>

-----------------------------------------------------------------------------
(* Bounds of the explored inputs. *)

\* longest alert list of one alerting rule, and of the alerts endpoint
MaxAlerts == 3
\* most rules of one rule-group set
MaxRules == 2
\* most groups of one rule-group set
MaxGroups == 2

-----------------------------------------------------------------------------
(* Labels *)

\* the enforced label name, r.label
label == "namespace"

LabelValues == {"", "a", "b"}

\* label sets of the explored documents: the enforced label absent (another
\* label carries the value), present and empty, present with a value
LabelSets ==
    {{<<"severity", "a">>}} \cup {{<<label, v>>} : v \in LabelValues}

\* labels.Labels.Get: the value of the named label, "" when it is absent
Get(ls, name) ==
    IF \E p \in ls : p[1] = name
    THEN (CHOOSE p \in ls : p[1] = name)[2]
    ELSE ""

\* labels.Labels.Copy
Copy(ls) == {p \in ls : TRUE}

\* routes.newLabelMatcher: the matcher built from the allowed values, or an
\* error when the matcher configuration is malformed
newLabelMatcher(rt, vals) ==
    IF rt.matcherMalformed
    THEN [m |-> {}, err |-> <<"invalid label matcher">>]
    ELSE [m |-> vals, err |-> << >>]

\* labels.Matcher.Matches
Matches(m, v) == v \in m

-----------------------------------------------------------------------------
(* Document model: decoding and encoding *)

\* json.Unmarshal into *alert
UnmarshalAlert(b) ==
    [Labels          |-> b.labels,
     Annotations     |-> b.annotations,
     State           |-> b.state,
     ActiveAt        |-> IF "activeAt" \in DOMAIN b THEN <<b.activeAt>> ELSE << >>,
     KeepFiringSince |-> IF "keepFiringSince" \in DOMAIN b
                         THEN <<b.keepFiringSince>> ELSE << >>,
     Value           |-> b.value]

\* json.Marshal of *alert
MarshalAlert(a) ==
    LET base == [labels      |-> a.Labels,
                 annotations |-> a.Annotations,
                 state       |-> a.State,
                 value       |-> a.Value]
        act  == IF a.ActiveAt = << >> THEN base
                ELSE [k \in DOMAIN base \cup {"activeAt"} |->
                        IF k = "activeAt" THEN a.ActiveAt[1] ELSE base[k]]
    IN  IF a.KeepFiringSince = << >> THEN act
        ELSE [k \in DOMAIN act \cup {"keepFiringSince"} |->
                IF k = "keepFiringSince" THEN a.KeepFiringSince[1] ELSE act[k]]

\* json.Unmarshal into alertingRule
UnmarshalAlertingRule(b) ==
    [State          |-> b.state,
     Name           |-> b.name,
     Query          |-> b.query,
     Duration       |-> b.duration,
     KeepFiringFor  |-> b.keepFiringFor,
     Labels         |-> b.labels,
     Annotations    |-> b.annotations,
     Alerts         |-> [i \in 1..Len(b.alerts) |-> UnmarshalAlert(b.alerts[i])],
     Health         |-> b.health,
     LastError      |-> IF "lastError" \in DOMAIN b THEN b.lastError ELSE "",
     EvaluationTime |-> b.evaluationTime,
     LastEvaluation |-> b.lastEvaluation,
     Type           |-> b.type]

\* json.Unmarshal into recordingRule
UnmarshalRecordingRule(b) ==
    [Name           |-> b.name,
     Query          |-> b.query,
     Labels         |-> IF "labels" \in DOMAIN b THEN b.labels ELSE {},
     Health         |-> b.health,
     LastError      |-> IF "lastError" \in DOMAIN b THEN b.lastError ELSE "",
     EvaluationTime |-> b.evaluationTime,
     LastEvaluation |-> b.lastEvaluation,
     Type           |-> b.type]

\* rule.UnmarshalJSON: the variant is chosen by the "type" discriminator
UnmarshalJSON(b) ==
    CASE b.type = "alerting" ->
            [v   |-> [alertingRule  |-> <<UnmarshalAlertingRule(b)>>,
                      recordingRule |-> << >>],
             err |-> << >>]
      [] b.type = "recording" ->
            [v   |-> [alertingRule  |-> << >>,
                      recordingRule |-> <<UnmarshalRecordingRule(b)>>],
             err |-> << >>]
      [] OTHER ->
            [v   |-> [alertingRule |-> << >>, recordingRule |-> << >>],
             err |-> <<"failed to unmarshal rule: unknown type">>]

\* rule.Labels
Labels(rl) ==
    IF rl.alertingRule # << >>
    THEN rl.alertingRule[1].Labels
    ELSE rl.recordingRule[1].Labels

\* json.Marshal of alertingRule
MarshalAlertingRule(ar) ==
    LET base == [state          |-> ar.State,
                 name           |-> ar.Name,
                 query          |-> ar.Query,
                 duration       |-> ar.Duration,
                 keepFiringFor  |-> ar.KeepFiringFor,
                 labels         |-> ar.Labels,
                 annotations    |-> ar.Annotations,
                 alerts         |-> [i \in 1..Len(ar.Alerts) |->
                                        MarshalAlert(ar.Alerts[i])],
                 health         |-> ar.Health,
                 evaluationTime |-> ar.EvaluationTime,
                 lastEvaluation |-> ar.LastEvaluation,
                 type           |-> ar.Type]
    IN  IF ar.LastError = "" THEN base
        ELSE [k \in DOMAIN base \cup {"lastError"} |->
                IF k = "lastError" THEN ar.LastError ELSE base[k]]

\* json.Marshal of recordingRule
MarshalRecordingRule(rr) ==
    LET base == [name           |-> rr.Name,
                 query          |-> rr.Query,
                 health         |-> rr.Health,
                 evaluationTime |-> rr.EvaluationTime,
                 lastEvaluation |-> rr.LastEvaluation,
                 type           |-> rr.Type]
        lbl  == IF rr.Labels = {} THEN base
                ELSE [k \in DOMAIN base \cup {"labels"} |->
                        IF k = "labels" THEN rr.Labels ELSE base[k]]
    IN  IF rr.LastError = "" THEN lbl
        ELSE [k \in DOMAIN lbl \cup {"lastError"} |->
                IF k = "lastError" THEN rr.LastError ELSE lbl[k]]

\* rule.MarshalJSON
MarshalJSON(rl) ==
    IF rl.alertingRule # << >>
    THEN MarshalAlertingRule(rl.alertingRule[1])
    ELSE MarshalRecordingRule(rl.recordingRule[1])

\* json.Unmarshal into ruleGroup: the first rule that fails to decode fails
\* the whole document
UnmarshalRuleGroup(b) ==
    LET rs == [i \in 1..Len(b.rules) |-> UnmarshalJSON(b.rules[i])]
    IN  IF \E i \in 1..Len(rs) : rs[i].err # << >>
        THEN [v   |-> << >>,
              err |-> rs[CHOOSE i \in 1..Len(rs) :
                            /\ rs[i].err # << >>
                            /\ \A j \in 1..(i - 1) : rs[j].err = << >>].err]
        ELSE [v   |-> <<[Name     |-> b.name,
                         File     |-> b.file,
                         Rules    |-> [i \in 1..Len(rs) |-> rs[i].v],
                         Interval |-> b.interval]>>,
              err |-> << >>]

\* json.Unmarshal(resp.Data, &rgs) with rgs a rulesData.  The payload is a
\* JSON value: [t |-> "object", o |-> <the object>], [t |-> "null"], which
\* decodes into the zero struct, a value of another JSON type
\* ([t |-> "string"]) or no bytes at all ([t |-> "none"]), which do not
\* decode.
UnmarshalRulesData(data) ==
    IF data.t = "null"
    THEN [v |-> [RuleGroups |-> << >>], err |-> << >>]
    ELSE IF data.t # "object"
    THEN [v |-> [RuleGroups |-> << >>], err |-> <<"json: cannot unmarshal">>]
    ELSE IF "groups" \notin DOMAIN data.o
    THEN [v |-> [RuleGroups |-> << >>], err |-> << >>]
    ELSE LET gs == [i \in 1..Len(data.o.groups) |->
                        UnmarshalRuleGroup(data.o.groups[i])]
         IN  IF \E i \in 1..Len(gs) : gs[i].err # << >>
             THEN [v   |-> [RuleGroups |-> << >>],
                   err |-> gs[CHOOSE i \in 1..Len(gs) :
                                 /\ gs[i].err # << >>
                                 /\ \A j \in 1..(i - 1) : gs[j].err = << >>].err]
             ELSE [v   |-> [RuleGroups |-> [i \in 1..Len(gs) |-> gs[i].v[1]]],
                   err |-> << >>]

\* json.Unmarshal(resp.Data, &data) with data an alertsData
UnmarshalAlertsData(data) ==
    IF data.t = "null"
    THEN [v |-> [Alerts |-> << >>], err |-> << >>]
    ELSE IF data.t # "object"
    THEN [v |-> [Alerts |-> << >>], err |-> <<"json: cannot unmarshal">>]
    ELSE IF "alerts" \notin DOMAIN data.o
    THEN [v |-> [Alerts |-> << >>], err |-> << >>]
    ELSE [v   |-> [Alerts |-> [i \in 1..Len(data.o.alerts) |->
                                  UnmarshalAlert(data.o.alerts[i])]],
          err |-> << >>]

\* json.Marshal of *rulesData
MarshalRulesData(rgs) ==
    [t |-> "object",
     o |-> [groups |-> [i \in 1..Len(rgs.RuleGroups) |->
                [name     |-> rgs.RuleGroups[i].Name,
                 file     |-> rgs.RuleGroups[i].File,
                 rules    |-> [j \in 1..Len(rgs.RuleGroups[i].Rules) |->
                                  MarshalJSON(rgs.RuleGroups[i].Rules[j])],
                 interval |-> rgs.RuleGroups[i].Interval]]]]

\* json.Marshal of *alertsData
MarshalAlertsData(d) ==
    [t |-> "object",
     o |-> [alerts |-> [i \in 1..Len(d.Alerts) |-> MarshalAlert(d.Alerts[i])]]]

-----------------------------------------------------------------------------
(* The transforms *)

\* filterRules, lines 243-255: the synthetic rule created on the first
\* matching alert; State and Alerts are left at their zero values
NewSyntheticRule(rgr) ==
    [State          |-> "",
     Name           |-> rgr.alertingRule[1].Name,
     Query          |-> rgr.alertingRule[1].Query,
     Duration       |-> rgr.alertingRule[1].Duration,
     KeepFiringFor  |-> rgr.alertingRule[1].KeepFiringFor,
     Labels         |-> Copy(rgr.alertingRule[1].Labels),
     Annotations    |-> Copy(rgr.alertingRule[1].Annotations),
     Alerts         |-> << >>,
     Health         |-> rgr.alertingRule[1].Health,
     LastError      |-> rgr.alertingRule[1].LastError,
     EvaluationTime |-> rgr.alertingRule[1].EvaluationTime,
     LastEvaluation |-> rgr.alertingRule[1].LastEvaluation,
     Type           |-> rgr.alertingRule[1].Type]

\* UpdateState with the tie-break lost: the aggregate state follows the
\* latest matching alert
UpdateStateLatest(ar, rgr, i) ==
    [ar EXCEPT !.State = rgr.alertingRule[1].Alerts[i].State]

\* filterRules, lines 259-266: the switch on ar.State after appending the
\* alert at index i of the parent's alert list
UpdateState(ar, rgr, i) ==
    CASE ar.State = "pending" ->
            IF rgr.alertingRule[1].Alerts[i].State = "firing"
            THEN [ar EXCEPT !.State = rgr.alertingRule[1].Alerts[i].State]
            ELSE ar
      [] ar.State = "" ->
            [ar EXCEPT !.State = rgr.alertingRule[1].Alerts[i].State]
      [] OTHER -> ar

\* SkipAlert without the test for an empty value
SkipAlertUnlessMatch(rt, m, rgr, i) ==
    ~Matches(m, Get(rgr.alertingRule[1].Alerts[i].Labels, rt.label))

\* filterRules, lines 238-240: whether the alert at index i is skipped
SkipAlert(rt, m, rgr, i) ==
    LET lval == Get(rgr.alertingRule[1].Alerts[i].Labels, rt.label)
    IN  lval = "" \/ ~Matches(m, lval)

\* filterRules, lines 236-267: the scan of the parent's alerts from index i
\* on, ar being the synthetic rule so far (a pointer, nil until a match)
RECURSIVE ScanAlerts(_, _, _, _, _)
ScanAlerts(rt, m, rgr, i, ar) ==
    IF i > Len(rgr.alertingRule[1].Alerts) THEN ar
    ELSE IF SkipAlert(rt, m, rgr, i) THEN ScanAlerts(rt, m, rgr, i + 1, ar)
    ELSE LET ar1 == IF ar = << >> THEN NewSyntheticRule(rgr) ELSE ar[1]
             ar2 == [ar1 EXCEPT !.Alerts =
                        Append(@, rgr.alertingRule[1].Alerts[i])]
         IN  ScanAlerts(rt, m, rgr, i + 1, <<UpdateState(ar2, rgr, i)>>)

\* filterRules, lines 227: whether the rule is kept whole
WholeMatch(rt, m, rgr) ==
    LET lval == Get(Labels(rgr), rt.label)
    IN  lval # "" /\ Matches(m, lval)

\* FilterRule filtering the child alerts of a rule that matches as a whole
FilterRuleFilterChildren(rt, m, rgr) ==
    IF WholeMatch(rt, m, rgr)
    THEN IF rgr.alertingRule = << >> THEN <<rgr>>
         ELSE <<[rgr EXCEPT !.alertingRule[1].Alerts =
                    SelectSeq(@, LAMBDA a :
                        Get(a.Labels, rt.label) # ""
                        /\ Matches(m, Get(a.Labels, rt.label)))]>>
    ELSE IF ~rt.rulesWithActiveAlerts \/ rgr.alertingRule = << >> THEN << >>
    ELSE LET ar == ScanAlerts(rt, m, rgr, 1, << >>)
         IN  IF ar # << >>
             THEN <<[alertingRule |-> ar, recordingRule |-> << >>]>>
             ELSE << >>

\* FilterRule without the test of rulesWithActiveAlerts
FilterRuleIgnoreFlag(rt, m, rgr) ==
    IF WholeMatch(rt, m, rgr) THEN <<rgr>>
    ELSE IF rgr.alertingRule = << >> THEN << >>
    ELSE LET ar == ScanAlerts(rt, m, rgr, 1, << >>)
         IN  IF ar # << >>
             THEN <<[alertingRule |-> ar, recordingRule |-> << >>]>>
             ELSE << >>

\* filterRules, lines 227-271: what one rule of a group appends to `rules`
FilterRule(rt, m, rgr) ==
    IF WholeMatch(rt, m, rgr) THEN <<rgr>>
    ELSE IF ~rt.rulesWithActiveAlerts \/ rgr.alertingRule = << >> THEN << >>
    ELSE LET ar == ScanAlerts(rt, m, rgr, 1, << >>)
         IN  IF ar # << >>
             THEN <<[alertingRule |-> ar, recordingRule |-> << >>]>>
             ELSE << >>

\* filterRules, lines 225-272: the rules kept of a group, from rule i on
RECURSIVE FilterGroupRules(_, _, _, _, _)
FilterGroupRules(rt, m, rg, i, rules) ==
    IF i > Len(rg.Rules) THEN rules
    ELSE FilterGroupRules(rt, m, rg, i + 1, rules \o FilterRule(rt, m, rg.Rules[i]))

\* KeepGroup without the test for an empty rule list
KeepGroupAlways(rg, rules) == <<[rg EXCEPT !.Rules = rules]>>

\* filterRules, lines 274-277: a group is kept, with its rules replaced,
\* when some rule of it is kept
KeepGroup(rg, rules) ==
    IF Len(rules) > 0 THEN <<[rg EXCEPT !.Rules = rules]>> ELSE << >>

\* filterRules, lines 223-278: the loop over the groups, from group i on
RECURSIVE FilterGroups(_, _, _, _, _)
FilterGroups(rt, m, groups, i, filtered) ==
    IF i > Len(groups) THEN filtered
    ELSE FilterGroups(rt, m, groups, i + 1,
            filtered \o KeepGroup(groups[i],
                            FilterGroupRules(rt, m, groups[i], 1, << >>)))

\* routes.filterRules
filterRules(rt, vals, rsp) ==
    LET rgs == UnmarshalRulesData(rsp.Data)
        lm  == newLabelMatcher(rt, vals)
    IN  IF rgs.err # << >>
        THEN [v |-> << >>, err |-> <<"can't decode rules data">> \o rgs.err]
        ELSE IF lm.err # << >>
        THEN [v |-> << >>, err |-> lm.err]
        ELSE [v   |-> <<[RuleGroups |->
                            FilterGroups(rt, lm.m, rgs.v.RuleGroups, 1, << >>)]>>,
              err |-> << >>]

\* FilterAlert without the test for an empty value
FilterAlertAnyMatch(rt, m, alert) ==
    IF Matches(m, Get(alert.Labels, rt.label)) THEN <<alert>> ELSE << >>

\* filterAlerts, lines 296-298: what one alert appends to `filtered`
FilterAlert(rt, m, alert) ==
    LET lval == Get(alert.Labels, rt.label)
    IN  IF lval # "" /\ Matches(m, lval) THEN <<alert>> ELSE << >>

\* filterAlerts, lines 294-299: the loop over the alerts, from alert i on
RECURSIVE FilterAlertList(_, _, _, _, _)
FilterAlertList(rt, m, alerts, i, filtered) ==
    IF i > Len(alerts) THEN filtered
    ELSE FilterAlertList(rt, m, alerts, i + 1,
            filtered \o FilterAlert(rt, m, alerts[i]))

\* routes.filterAlerts
filterAlerts(rt, vals, rsp) ==
    LET data == UnmarshalAlertsData(rsp.Data)
        lm   == newLabelMatcher(rt, vals)
    IN  IF data.err # << >>
        THEN [v |-> << >>, err |-> <<"can't decode alerts data">> \o data.err]
        ELSE IF lm.err # << >>
        THEN [v |-> << >>, err |-> lm.err]
        ELSE [v   |-> <<[Alerts |->
                            FilterAlertList(rt, lm.m, data.v.Alerts, 1, << >>)]>>,
              err |-> << >>]

-----------------------------------------------------------------------------
(* The envelope codec and the interception pipeline *)

\* http.StatusOK
StatusOK == 200

\* errModifyResponseFailed
errModifyResponseFailed == "failed to process the API response"

\* errors.Is on a wrap chain
Is(err, target) == \E i \in 1..Len(err) : err[i] = target

\* http.Header.Get: "" when the header is absent
HGet(h, k) == IF k \in DOMAIN h THEN h[k] ELSE ""

\* http.Header.Del
HDel(h, k) == [x \in DOMAIN h \ {k} |-> h[x]]

\* resp.Header[k] = []string{v}
HSet(h, k, v) == [x \in DOMAIN h \cup {k} |-> IF x = k THEN v ELSE h[x]]

(* The bytes of a body are [enc, text]: enc is how the bytes are framed    *)
(* ("identity": the text itself, "gzip": a gzip stream of the text,        *)
(* "gzip-corrupt": a gzip header followed by corrupt data), text is what   *)
(* they say: [kind |-> "envelope", env |-> <JSON object>, nl |-> <trailing *)
(* newline>] or [kind |-> "malformed"].                                    *)

\* Sum of a sequence of numbers
RECURSIVE SumSeq(_)
SumSeq(ns) == IF ns = << >> THEN 0 ELSE Head(ns) + SumSeq(Tail(ns))

\* Size of the JSON object of an alert: its members
SizeAlert(a) == Cardinality(DOMAIN a)

\* Size of the JSON object of a rule: its members and its alerts
SizeRule(b) ==
    Cardinality(DOMAIN b)
    + (IF "alerts" \in DOMAIN b
       THEN SumSeq([i \in 1..Len(b.alerts) |-> SizeAlert(b.alerts[i])])
       ELSE 0)

\* Size of the JSON object of a rule group: its members and its rules
SizeGroup(g) ==
    Cardinality(DOMAIN g)
    + SumSeq([i \in 1..Len(g.rules) |-> SizeRule(g.rules[i])])

\* Size of a payload
SizeData(data) ==
    IF data.t = "none" THEN 0
    ELSE IF data.t # "object" THEN 1
    ELSE Cardinality(DOMAIN data.o)
         + (IF "groups" \in DOMAIN data.o
            THEN SumSeq([i \in 1..Len(data.o.groups) |-> SizeGroup(data.o.groups[i])])
            ELSE 0)
         + (IF "alerts" \in DOMAIN data.o
            THEN SumSeq([i \in 1..Len(data.o.alerts) |-> SizeAlert(data.o.alerts[i])])
            ELSE 0)

\* Length of a text, counted in JSON values and members rather than bytes
SizeText(text) ==
    IF text.kind = "malformed" THEN 1
    ELSE (IF text.nl THEN 1 ELSE 0)
         + Cardinality(DOMAIN text.env)
         + (IF "data" \in DOMAIN text.env THEN SizeData(text.env.data) ELSE 0)

\* bytes.Buffer.Len, and the length of any body
ByteLen(bytes) ==
    IF bytes.enc = "identity" THEN SizeText(bytes.text)
    ELSE 1 + SizeText(bytes.text)

\* gzip.NewReader: reads the gzip header of the body
NewReader(body) ==
    IF body.bytes.enc \in {"gzip", "gzip-corrupt"}
    THEN << >>
    ELSE <<"gzip: invalid header">>

\* json.NewDecoder(reader).Decode(&apir): reader is the body itself, or the
\* gzip reader over it when gz
Decode(body, gz) ==
    LET zero == [Status |-> "", Data |-> [t |-> "none"], ErrorType |-> "",
                 Error |-> "", Warnings |-> << >>]
        env  == body.bytes.text.env
    IN  IF gz /\ body.bytes.enc = "gzip-corrupt"
        THEN [v |-> zero, err |-> <<"flate: corrupt input">>]
        ELSE IF ~gz /\ body.bytes.enc # "identity"
        THEN [v |-> zero, err |-> <<"invalid character">>]
        ELSE IF body.bytes.text.kind = "malformed"
        THEN [v |-> zero, err |-> <<"unexpected EOF">>]
        ELSE [v   |-> [Status    |-> IF "status" \in DOMAIN env THEN env.status ELSE "",
                       Data      |-> IF "data" \in DOMAIN env
                                     THEN env.data ELSE [t |-> "none"],
                       ErrorType |-> IF "errorType" \in DOMAIN env
                                     THEN env.errorType ELSE "",
                       Error     |-> IF "error" \in DOMAIN env THEN env.error ELSE "",
                       Warnings  |-> IF "warnings" \in DOMAIN env
                                     THEN env.warnings ELSE << >>],
              err |-> << >>]

\* getAPIResponse, line 41: whether the body is decompressed here
IsGzip(rsp) == HGet(rsp.Header, "Content-Encoding") = "gzip" /\ ~rsp.Uncompressed

\* getAPIResponse, line 50: the header is deleted once the gzip reader exists
DelContentEncoding(rsp) == [rsp EXCEPT !.Header = HDel(@, "Content-Encoding")]

\* getAPIResponse: the response as the call leaves it (the body is closed by
\* the deferred Close), the decoded envelope (a pointer) and the error
getAPIResponse(rsp) ==
    LET gz     == IsGzip(rsp)
        closed == [rsp EXCEPT !.Body.closed = TRUE]
        opened == [closed EXCEPT !.Body.read = TRUE]
    IN  IF gz /\ NewReader(rsp.Body) # << >>
        THEN [resp |-> opened, apir |-> << >>,
              err  |-> <<"gzip decoding error">> \o NewReader(rsp.Body)]
        ELSE LET rsp1 == IF gz THEN DelContentEncoding(opened) ELSE closed
                 rsp2 == [rsp1 EXCEPT !.Body.read = TRUE]
                 d    == Decode(rsp.Body, gz)
             IN  IF rsp.StatusCode # StatusOK
                 THEN [resp |-> rsp1, apir |-> << >>,
                       err  |-> <<"unexpected status code">>]
                 ELSE IF d.err # << >>
                 THEN [resp |-> rsp2, apir |-> << >>,
                       err  |-> <<"JSON decoding error">> \o d.err]
                 ELSE IF d.v.Status # "success"
                 THEN [resp |-> rsp2, apir |-> << >>,
                       err  |-> <<"unexpected response status">>]
                 ELSE [resp |-> rsp2, apir |-> <<d.v>>, err |-> << >>]

\* json.Marshal(v) of what a transform returned (*rulesData or *alertsData)
Marshal(rte, v) ==
    IF rte = "rules" THEN MarshalRulesData(v) ELSE MarshalAlertsData(v)

\* json.NewEncoder(&buf).Encode(apir): the envelope with its empty optional
\* members left out, followed by a newline
Encode(ap) ==
    LET members == {"status"}
                   \cup (IF ap.Data.t = "none" THEN {} ELSE {"data"})
                   \cup (IF ap.ErrorType = "" THEN {} ELSE {"errorType"})
                   \cup (IF ap.Error = "" THEN {} ELSE {"error"})
                   \cup (IF ap.Warnings = << >> THEN {} ELSE {"warnings"})
    IN  [enc  |-> "identity",
         text |-> [kind |-> "envelope",
                   env  |-> [k \in members |->
                                CASE k = "status"    -> ap.Status
                                  [] k = "data"      -> ap.Data
                                  [] k = "errorType" -> ap.ErrorType
                                  [] k = "error"     -> ap.Error
                                  [] k = "warnings"  -> ap.Warnings],
                   nl   |-> TRUE]]

\* The transform f given to modifyAPIResponse for the route
Transform(rte, rt, vals, ap) ==
    IF rte = "rules" THEN filterRules(rt, vals, ap) ELSE filterAlerts(rt, vals, ap)

\* PassThrough for server errors only
PassThroughServerErrors(rsp) == rsp.StatusCode >= 500

\* modifyAPIResponse, lines 179-182: responses passed as they are
PassThrough(rsp) == rsp.StatusCode # StatusOK

\* TransformError without the sentinel
TransformErrorUnwrapped(cause) == <<"can't filter the data">> \o cause

\* modifyAPIResponse, line 191: the error returned when the transform fails
TransformError(cause) == <<errModifyResponseFailed>> \o cause

\* modifyAPIResponse, line 186: the error returned when the envelope does
\* not decode
DecodeError(cause) == <<"can't decode the response">> \o cause

\* ContentLength taken from the encoded payload instead of the envelope
ContentLengthOfPayload(b, buf) == SizeData(b)

\* modifyAPIResponse, line 206: the Content-Length of the rewritten response,
\* b being the encoded payload and buf the encoded envelope
ContentLength(b, buf) == ByteLen(buf)

\* modifyAPIResponse, lines 199-206: the response with the new body
Rewrite(rsp, b, buf) ==
    [rsp EXCEPT !.Body   = [bytes |-> buf, closed |-> FALSE, read |-> FALSE],
                !.Header = HSet(@, "Content-Length", ContentLength(b, buf))]

\* The function returned by modifyAPIResponse(f), applied to a response
\* whose request carries the allowed values vals: the response as it leaves
\* it, the error returned, the decoded envelope and what f returned
modifyAPIResponse(rte, rt, vals, rsp) ==
    IF PassThrough(rsp)
    THEN [resp |-> rsp, err |-> << >>, apir |-> << >>, ret |-> << >>]
    ELSE LET g == getAPIResponse(rsp)
         IN  IF g.err # << >>
             THEN [resp |-> g.resp, err |-> DecodeError(g.err),
                   apir |-> << >>, ret |-> << >>]
             ELSE LET v == Transform(rte, rt, vals, g.apir[1])
                  IN  IF v.err # << >>
                      THEN [resp |-> g.resp, err |-> TransformError(v.err),
                            apir |-> g.apir, ret |-> <<v>>]
                      ELSE LET b   == Marshal(rte, v.v[1])
                               ap  == [g.apir[1] EXCEPT !.Data = b]
                               buf == Encode(ap)
                           IN  [resp |-> Rewrite(g.resp, b, buf), err |-> << >>,
                                apir |-> <<ap>>, ret |-> <<v>>]

-----------------------------------------------------------------------------
(* The explored documents *)

\* The states Prometheus reports for an active alert
AlertStates == {"pending", "firing"}

\* The JSON object of an alert; its value is its position in its list
RawAlert(ls, st, pos) ==
    [labels      |-> ls,
     annotations |-> {<<"summary", "s">>},
     state       |-> st,
     activeAt    |-> "t0",
     value       |-> pos]

\* Every alert list of at most n alerts
RawAlertLists(n) ==
    UNION {{[i \in 1..k |-> RawAlert(f[i][1], f[i][2], i)] :
                f \in [1..k -> LabelSets \X AlertStates]} : k \in 0..n}

\* The JSON object of an alerting rule
RawAlertingRule(name, ls, st, alerts) ==
    [state          |-> st,
     name           |-> name,
     query          |-> "up == 0",
     duration       |-> 60,
     keepFiringFor  |-> 0,
     labels         |-> ls,
     annotations    |-> {<<"runbook", "u">>},
     alerts         |-> alerts,
     health         |-> "ok",
     evaluationTime |-> 1,
     lastEvaluation |-> "t1",
     type           |-> "alerting"]

\* The JSON object of a recording rule
RawRecordingRule(name, ls) ==
    [name           |-> name,
     query          |-> "sum(up)",
     labels         |-> ls,
     health         |-> "ok",
     evaluationTime |-> 1,
     lastEvaluation |-> "t1",
     type           |-> "recording"]

\* The JSON object of a rule group
RawGroup(name, rules) ==
    [name |-> name, file |-> "rules.yaml", rules |-> rules, interval |-> 30]

\* A rule of a given kind <<type, labels, state, alerts>>, named name
RawRule(kind, name) ==
    IF kind[1] = "alerting"
    THEN RawAlertingRule(name, kind[2], kind[3], kind[4])
    ELSE RawRecordingRule(name, kind[2])

\* Rule-group sets of one group holding one rule: every label set, both
\* variants, every alert list of at most MaxAlerts alerts
DeepRuleKinds ==
    ({"alerting"} \X LabelSets \X {"inactive", "firing"} \X RawAlertLists(MaxAlerts))
    \cup ({"recording"} \X LabelSets \X {""} \X {<< >>})

DeepRulesPayloads ==
    {[t |-> "object", o |-> [groups |-> <<RawGroup(1, <<RawRule(k, 1)>>)>>]] :
        k \in DeepRuleKinds}

\* The kinds of rule of the rule-group sets of several groups and rules
WideRuleKinds ==
    {<<"alerting", {<<label, "a">>}, "inactive", << >>>>,
     <<"alerting", {<<label, "b">>}, "inactive", << >>>>,
     <<"alerting", {<<label, "a">>}, "pending",
            <<RawAlert({<<label, "b">>}, "pending", 1)>>>>,
     <<"alerting", {<<label, "b">>}, "firing",
            <<RawAlert({<<label, "a">>}, "firing", 1)>>>>,
     <<"alerting", {<<label, "b">>}, "pending",
            <<RawAlert({<<label, "b">>}, "pending", 1)>>>>,
     <<"alerting", {<<label, "a">>}, "firing",
            <<RawAlert({<<label, "a">>}, "firing", 1)>>>>,
     <<"recording", {<<label, "a">>}, "", << >>>>,
     <<"recording", {<<label, "b">>}, "", << >>>>}

\* The ways to cut n rules into g consecutive groups (a group may be empty):
\* cut[j] is the number of rules in the first j groups
Cuts(n, g) ==
    {c \in [0..g -> 0..n] :
        /\ c[0] = 0
        /\ c[g] = n
        /\ \A j \in 1..g : c[j - 1] <= c[j]}

\* Rule-group sets of at most MaxGroups groups and MaxRules rules in all; a
\* rule is named by its position in the document, a group by its index
WideRulesPayloads ==
    UNION {UNION {
        {[t |-> "object",
          o |-> [groups |-> [j \in 1..g |->
                    RawGroup(j, [i \in 1..(c[j] - c[j - 1]) |->
                                    RawRule(f[c[j - 1] + i], c[j - 1] + i)])]]] :
            f \in [1..n -> WideRuleKinds], c \in Cuts(n, g)} :
        g \in (IF n = 0 THEN 0 ELSE 1)..MaxGroups} : n \in 0..MaxRules}

\* Payloads that are no rule-group set: a rule of unknown type, a payload
\* that is no JSON object, the JSON null
BadRulesPayloads ==
    {[t |-> "object",
      o |-> [groups |-> <<RawGroup(1,
                <<[RawRecordingRule(1, {<<label, "a">>}) EXCEPT !.type = "unknown"]>>)>>]],
     [t |-> "string"], [t |-> "null"]}

RulesPayloads == DeepRulesPayloads \cup WideRulesPayloads \cup BadRulesPayloads

AlertsPayloads ==
    {[t |-> "object", o |-> [alerts |-> as]] : as \in RawAlertLists(MaxAlerts)}
    \cup {[t |-> "string"], [t |-> "null"]}

\* The allowed values of a request: one value, several values, and sets
\* with the empty string, which an equality matcher then accepts
LValueSets == {{"a"}, {"a", "b"}, {"", "a"}, {""}}

\* The routes configurations: both settings of rulesWithActiveAlerts
Routes ==
    {[label |-> label, rulesWithActiveAlerts |-> f, matcherMalformed |-> FALSE] :
        f \in BOOLEAN}

\* A routes configuration whose matcher cannot be built
MalformedRoutes ==
    {[label |-> label, rulesWithActiveAlerts |-> TRUE, matcherMalformed |-> TRUE]}

-----------------------------------------------------------------------------
(* The transforms applied to a decoded envelope *)

NoResponse == [StatusCode |-> 0]

InitFilter ==
    /\ r \in Routes \cup MalformedRoutes
    /\ lvalues \in LValueSets
    /\ route \in {"rules", "alerts"}
    /\ \E data \in (IF route = "rules" THEN RulesPayloads ELSE AlertsPayloads) :
          apir = <<[Status |-> "success", Data |-> data]>>
    /\ ret = << >>
    /\ resp = NoResponse
    /\ entry = NoResponse
    /\ rerr = << >>
    /\ pc = "transform"

CallFilterRules ==
    /\ pc = "transform"
    /\ route = "rules"
    /\ ret' = <<filterRules(r, lvalues, apir[1])>>
    /\ pc' = "done"
    /\ UNCHANGED <<r, lvalues, route, apir, resp, entry, rerr>>

CallFilterAlerts ==
    /\ pc = "transform"
    /\ route = "alerts"
    /\ ret' = <<filterAlerts(r, lvalues, apir[1])>>
    /\ pc' = "done"
    /\ UNCHANGED <<r, lvalues, route, apir, resp, entry, rerr>>

NextFilter == CallFilterRules \/ CallFilterAlerts

SpecFilter == InitFilter /\ [][NextFilter]_vars

-----------------------------------------------------------------------------
(* The rewrite of a backend response *)

\* Payloads of the intercepted responses: one group of one rule, at most one
\* alert, and the payloads that are no document
ResponsePayloads(rte) ==
    IF rte = "rules"
    THEN {[t |-> "object", o |-> [groups |-> <<RawGroup(1, <<RawRule(k, 1)>>)>>]] :
            k \in WideRuleKinds}
         \cup BadRulesPayloads
    ELSE {[t |-> "object", o |-> [alerts |-> as]] : as \in RawAlertLists(1)}
         \cup {[t |-> "string"], [t |-> "null"]}

\* What a body says: a success envelope around a payload (with or without
\* warnings), an error envelope, an envelope without data, a truncated text
ResponseTexts(rte) ==
    {[kind |-> "envelope", env |-> [status |-> "success", data |-> d], nl |-> FALSE] :
        d \in ResponsePayloads(rte)}
    \cup {[kind |-> "envelope",
           env  |-> [status |-> "success", data |-> [t |-> "null"],
                     warnings |-> <<"w">>],
           nl   |-> FALSE],
          [kind |-> "envelope",
           env  |-> [status |-> "error", errorType |-> "bad_data", error |-> "e"],
           nl   |-> FALSE],
          [kind |-> "envelope", env |-> [status |-> "success"], nl |-> FALSE],
          [kind |-> "malformed"]}

\* The framing of a response: the Content-Encoding header (absent when ""),
\* whether the transport already decompressed the body, how the bytes are
\* framed
Framings ==
    {"", "gzip", "identity"} \X BOOLEAN \X {"identity", "gzip", "gzip-corrupt"}

\* The backend response of a given status, framing and text
Response(code, fr, text) ==
    LET bytes == [enc |-> fr[3], text |-> text]
        base  == [x \in {"Content-Type", "Content-Length"} |->
                    IF x = "Content-Type" THEN "application/json"
                    ELSE ByteLen(bytes)]
    IN  [StatusCode   |-> code,
         Header       |-> IF fr[1] = "" THEN base
                          ELSE HSet(base, "Content-Encoding", fr[1]),
         Uncompressed |-> fr[2],
         Body         |-> [bytes |-> bytes, closed |-> FALSE, read |-> FALSE]]

Init ==
    /\ r \in Routes \cup MalformedRoutes
    /\ lvalues \in LValueSets
    /\ route \in {"rules", "alerts"}
    /\ \E code \in {StatusOK, 404, 500}, fr \in Framings, text \in ResponseTexts(route) :
          resp = Response(code, fr, text)
    /\ entry = resp
    /\ apir = << >>
    /\ ret = << >>
    /\ rerr = << >>
    /\ pc = "intercept"

\* The reverse proxy hands the backend response to the rewrite function
ModifyResponse ==
    /\ pc = "intercept"
    /\ LET res == modifyAPIResponse(route, r, lvalues, resp)
       IN  /\ resp' = res.resp
           /\ rerr' = res.err
           /\ apir' = res.apir
           /\ ret' = res.ret
    /\ pc' = "done"
    /\ UNCHANGED <<r, lvalues, route, entry>>

Next == ModifyResponse

Spec == Init /\ [][Next]_vars

-----------------------------------------------------------------------------
(* Properties of the transforms, under SpecFilter *)

\* A label set whose value of the enforced label is non-empty and accepted
\* by the matcher built from the allowed values
Allowed(ls) ==
    /\ Get(ls, label) # ""
    /\ Matches(newLabelMatcher(r, lvalues).m, Get(ls, label))

AllowedAlert(a) == Allowed(a.Labels)

AllowedRule(rl) == Allowed(Labels(rl))

\* The transform of the route has returned without error
FilterOK(rte) == pc = "done" /\ route = rte /\ ret # << >> /\ ret[1].err = << >>

\* The decoded input and the output of the transforms
InGroups == UnmarshalRulesData(apir[1].Data).v.RuleGroups
OutGroups == ret[1].v[1].RuleGroups
InAlerts == UnmarshalAlertsData(apir[1].Data).v.Alerts
OutAlerts == ret[1].v[1].Alerts

IsAlerting(rl) == rl.alertingRule # << >>

RuleAlerts(rl) == IF IsAlerting(rl) THEN rl.alertingRule[1].Alerts ELSE << >>

RuleName(rl) ==
    IF IsAlerting(rl) THEN rl.alertingRule[1].Name ELSE rl.recordingRule[1].Name

SomeChildAllowed(rl) ==
    \E i \in 1..Len(RuleAlerts(rl)) : AllowedAlert(RuleAlerts(rl)[i])

\* The rules of the group of outs that has the name of group g
OutRulesOf(outs, g) ==
    IF \E go \in 1..Len(outs) : outs[go].Name = g.Name
    THEN outs[CHOOSE go \in 1..Len(outs) : outs[go].Name = g.Name].Rules
    ELSE << >>

\* Rule rl has a rule of its name among rules
Contributes(rules, rl) ==
    \E k \in 1..Len(rules) : RuleName(rules[k]) = RuleName(rl)

\* C1 as stated: every rule of the output of filterRules, every child alert
\* of such a rule and every alert of the output of filterAlerts has a
\* non-empty value of the enforced label that the matcher accepts.
C1_TenantIsolationAsStated ==
    /\ FilterOK("rules") =>
          LET outs == OutGroups
          IN  \A go \in 1..Len(outs) : \A k \in 1..Len(outs[go].Rules) :
                  /\ AllowedRule(outs[go].Rules[k])
                  /\ \A i \in 1..Len(RuleAlerts(outs[go].Rules[k])) :
                        AllowedAlert(RuleAlerts(outs[go].Rules[k])[i])
    /\ FilterOK("alerts") =>
          \A i \in 1..Len(OutAlerts) : AllowedAlert(OutAlerts[i])

\* C1 amended: every alert of the output of filterAlerts has a non-empty
\* accepted value of the enforced label; every rule of the output of
\* filterRules either has one itself, or is an alerting rule emitted under
\* rulesWithActiveAlerts with at least one child alert, all of whose child
\* alerts have one.
C1_TenantIsolation ==
    /\ FilterOK("rules") =>
          LET outs == OutGroups
          IN  \A go \in 1..Len(outs) : \A k \in 1..Len(outs[go].Rules) :
                  \/ AllowedRule(outs[go].Rules[k])
                  \/ /\ IsAlerting(outs[go].Rules[k])
                     /\ r.rulesWithActiveAlerts
                     /\ Len(RuleAlerts(outs[go].Rules[k])) > 0
                     /\ \A i \in 1..Len(RuleAlerts(outs[go].Rules[k])) :
                           AllowedAlert(RuleAlerts(outs[go].Rules[k])[i])
    /\ FilterOK("alerts") =>
          \A i \in 1..Len(OutAlerts) : AllowedAlert(OutAlerts[i])

\* A synthesized rule is in the output: its own label fails the match, it
\* carries fewer alerts than its parent, and the matcher accepts ""
C1_Witness ==
    /\ FilterOK("rules")
    /\ "" \in lvalues
    /\ Len(InGroups) = 1 /\ Len(OutGroups) = 1
    /\ Len(InGroups[1].Rules) = 1 /\ Len(OutGroups[1].Rules) = 1
    /\ ~AllowedRule(OutGroups[1].Rules[1])
    /\ Len(RuleAlerts(OutGroups[1].Rules[1])) = 2
    /\ Len(RuleAlerts(InGroups[1].Rules[1])) = 3
    /\ \E i \in 1..3 : Get(RuleAlerts(InGroups[1].Rules[1])[i].Labels, label) = ""

\* C6: a rule whose own label is non-empty and accepted is in the output,
\* in the group of its input group, exactly as it was in the input (state,
\* alert list and all), whatever its child alerts and the flag.
C6_WholeRulePrecedence ==
    FilterOK("rules") =>
        LET ins  == InGroups
            outs == OutGroups
        IN  \A gi \in 1..Len(ins) :
                LET kept == OutRulesOf(outs, ins[gi])
                IN  \A ri \in 1..Len(ins[gi].Rules) :
                        AllowedRule(ins[gi].Rules[ri]) =>
                            \E k \in 1..Len(kept) : kept[k] = ins[gi].Rules[ri]

\* A matching alerting rule with a child alert that fails the match is kept
\* with its three alerts
C6_Witness ==
    /\ FilterOK("rules")
    /\ Len(InGroups) = 1 /\ Len(InGroups[1].Rules) = 1
    /\ AllowedRule(InGroups[1].Rules[1])
    /\ Len(RuleAlerts(InGroups[1].Rules[1])) = 3
    /\ ~AllowedAlert(RuleAlerts(InGroups[1].Rules[1])[2])
    /\ Len(OutGroups) = 1
    /\ OutGroups[1].Rules = InGroups[1].Rules

\* C7: a rule whose own label fails the match has a rule in the output if
\* and only if it is an alerting rule, rulesWithActiveAlerts is set and some
\* child alert of it has a non-empty accepted label; with the flag off the
\* rules of the output are exactly the rules that match as a whole.
C7_PartialMatch ==
    FilterOK("rules") =>
        LET ins  == InGroups
            outs == OutGroups
        IN  \A gi \in 1..Len(ins) :
                LET kept == OutRulesOf(outs, ins[gi])
                IN  /\ \A ri \in 1..Len(ins[gi].Rules) :
                          ~AllowedRule(ins[gi].Rules[ri]) =>
                              (Contributes(kept, ins[gi].Rules[ri]) <=>
                                  /\ IsAlerting(ins[gi].Rules[ri])
                                  /\ r.rulesWithActiveAlerts
                                  /\ SomeChildAllowed(ins[gi].Rules[ri]))
                    /\ ~r.rulesWithActiveAlerts =>
                          kept = SelectSeq(ins[gi].Rules, AllowedRule)

\* Under the flag, a group holds a recording rule that fails the match and is
\* dropped and an alerting rule that fails the match and is synthesized
C7_Witness ==
    /\ FilterOK("rules")
    /\ r.rulesWithActiveAlerts
    /\ Len(InGroups) = 1 /\ Len(InGroups[1].Rules) = 2
    /\ ~IsAlerting(InGroups[1].Rules[1]) /\ ~AllowedRule(InGroups[1].Rules[1])
    /\ IsAlerting(InGroups[1].Rules[2]) /\ ~AllowedRule(InGroups[1].Rules[2])
    /\ ~Contributes(OutRulesOf(OutGroups, InGroups[1]), InGroups[1].Rules[1])
    /\ Contributes(OutRulesOf(OutGroups, InGroups[1]), InGroups[1].Rules[2])

\* A rule is retained or synthesized
Kept(rl) ==
    \/ AllowedRule(rl)
    \/ IsAlerting(rl) /\ r.rulesWithActiveAlerts /\ SomeChildAllowed(rl)

\* C8: no group of the output has an empty rule list; a group is in the
\* output exactly when some rule of it is retained or synthesized; the
\* groups, and the rules of each group, are in their input order, each input
\* rule giving at most one output rule.
C8_GroupsAndOrder ==
    FilterOK("rules") =>
        LET ins  == InGroups
            outs == OutGroups
        IN  /\ \A go \in 1..Len(outs) : Len(outs[go].Rules) > 0
            /\ \A gi \in 1..Len(ins) :
                  (\E go \in 1..Len(outs) : outs[go].Name = ins[gi].Name)
                      <=> (\E ri \in 1..Len(ins[gi].Rules) : Kept(ins[gi].Rules[ri]))
            /\ \A go \in 1..Len(outs) :
                  /\ \E gi \in 1..Len(ins) :
                        /\ ins[gi].Name = outs[go].Name
                        /\ \A k \in 1..Len(outs[go].Rules) :
                              Contributes(ins[gi].Rules, outs[go].Rules[k])
                  /\ \A k1, k2 \in 1..Len(outs[go].Rules) :
                        k1 < k2 => RuleName(outs[go].Rules[k1])
                                      < RuleName(outs[go].Rules[k2])
            /\ \A g1, g2 \in 1..Len(outs) :
                  g1 < g2 => outs[g1].Name < outs[g2].Name

\* Of two groups with a rule each, the first is dropped and the second kept
C8_Witness ==
    /\ FilterOK("rules")
    /\ Len(InGroups) = 2
    /\ Len(InGroups[1].Rules) = 1 /\ Len(InGroups[2].Rules) = 1
    /\ Len(OutGroups) = 1
    /\ OutGroups[1].Name = InGroups[2].Name

\* C9: the output of filterAlerts is the subsequence of the input alerts
\* whose value of the enforced label is non-empty and accepted, in order and
\* unaltered.
C9_AlertsPureFilter ==
    FilterOK("alerts") => OutAlerts = SelectSeq(InAlerts, AllowedAlert)

\* The matcher accepts "", an alert without a value is excluded and an alert
\* with an accepted value is kept
C9_Witness ==
    /\ FilterOK("alerts")
    /\ "" \in lvalues
    /\ Len(InAlerts) = 3 /\ Len(OutAlerts) = 1
    /\ \E i \in 1..3 : Get(InAlerts[i].Labels, label) = ""

\* The tie-break over a non-empty alert list: the first alert's state,
\* raised from "pending" to "firing" by a later "firing" alert
RECURSIVE AggregateState(_)
AggregateState(as) ==
    IF Len(as) = 1 THEN as[1].State
    ELSE LET prev == AggregateState(SubSeq(as, 1, Len(as) - 1))
         IN  IF prev = "pending" /\ as[Len(as)].State = "firing"
             THEN "firing"
             ELSE prev

\* C10: under rulesWithActiveAlerts, the rule synthesized from an alerting
\* rule that fails the match carries exactly the parent's alerts with a
\* non-empty accepted label, in the parent's order, and its state is the
\* tie-break over those alerts alone.
C10_Synthesis ==
    (FilterOK("rules") /\ r.rulesWithActiveAlerts) =>
        LET ins  == InGroups
            outs == OutGroups
        IN  \A gi \in 1..Len(ins) :
                LET kept == OutRulesOf(outs, ins[gi])
                IN  \A ri \in 1..Len(ins[gi].Rules) :
                        LET rl == ins[gi].Rules[ri]
                            ms == SelectSeq(RuleAlerts(rl), AllowedAlert)
                        IN  (IsAlerting(rl) /\ ~AllowedRule(rl) /\ ms # << >>) =>
                                \E k \in 1..Len(kept) :
                                    /\ RuleName(kept[k]) = RuleName(rl)
                                    /\ IsAlerting(kept[k])
                                    /\ kept[k].alertingRule[1].Alerts = ms
                                    /\ kept[k].alertingRule[1].State
                                          = AggregateState(ms)

\* Alerts [a/pending, b/firing, a/firing] with allowed {a} under a rule of
\* label b: two alerts, state "firing"
C10_Witness ==
    /\ FilterOK("rules")
    /\ r.rulesWithActiveAlerts
    /\ lvalues = {"a"}
    /\ Len(InGroups) = 1 /\ Len(InGroups[1].Rules) = 1
    /\ IsAlerting(InGroups[1].Rules[1])
    /\ Get(Labels(InGroups[1].Rules[1]), label) = "b"
    /\ Len(RuleAlerts(InGroups[1].Rules[1])) = 3
    /\ [i \in 1..3 |-> Get(RuleAlerts(InGroups[1].Rules[1])[i].Labels, label)]
          = <<"a", "b", "a">>
    /\ [i \in 1..3 |-> RuleAlerts(InGroups[1].Rules[1])[i].State]
          = <<"pending", "firing", "firing">>
    /\ Len(OutGroups) = 1
    /\ [i \in 1..Len(RuleAlerts(OutGroups[1].Rules[1])) |->
            RuleAlerts(OutGroups[1].Rules[1])[i].Value] = <<1, 3>>
    /\ OutGroups[1].Rules[1].alertingRule[1].State = "firing"

-----------------------------------------------------------------------------
(* Properties of the rewrite function, under Spec *)

ContentEncoding(rsp) == HGet(rsp.Header, "Content-Encoding")

\* The rewrite function has returned
Returned == pc = "done"

\* The three outcomes of an invocation
Passthrough == rerr = << >> /\ resp = entry

Rewritten ==
    /\ rerr = << >>
    /\ resp.Body.bytes # entry.Body.bytes
    /\ "Content-Length" \in DOMAIN resp.Header
    /\ resp.Header["Content-Length"] = ByteLen(resp.Body.bytes)

Failed == rerr # << >>

\* C2 as stated: an invocation ends in exactly one of passthrough, rewritten
\* response and error, and when it returns an error the body, the
\* Content-Length and the Content-Encoding header are as they were on entry.
C2_NoPartialWrites ==
    Returned =>
        /\ (Passthrough /\ ~Rewritten /\ ~Failed)
              \/ (~Passthrough /\ Rewritten /\ ~Failed)
              \/ (~Passthrough /\ ~Rewritten /\ Failed)
        /\ Failed =>
              /\ resp.Body.bytes = entry.Body.bytes
              /\ HGet(resp.Header, "Content-Length") = HGet(entry.Header, "Content-Length")
              /\ ContentEncoding(resp) = ContentEncoding(entry)

C4_NonOKPassthrough ==
    (Returned /\ entry.StatusCode # StatusOK) =>
        /\ rerr = << >>
        /\ resp = entry
        /\ ~resp.Body.read /\ ~resp.Body.closed
        /\ apir = << >>
        /\ ret = << >>

\* A gzip-encoded 404 has passed through
C4_Witness ==
    /\ Returned
    /\ entry.StatusCode = 404
    /\ ContentEncoding(entry) = "gzip"
    /\ entry.Body.bytes.enc = "gzip"
    /\ ContentEncoding(resp) = "gzip"
    /\ resp.Body = entry.Body
    /\ rerr = << >>

\* A 200 response has been rewritten
Success == Returned /\ entry.StatusCode = StatusOK /\ rerr = << >>

\* C5 as stated: after a successful rewrite the body is uncompressed JSON,
\* Content-Length is the length of the new body, and Content-Encoding is
\* absent whenever it was present on the input.
C5_FramingAsStated ==
    Success =>
        /\ resp.Body.bytes.enc = "identity"
        /\ resp.Body.bytes.text.kind = "envelope"
        /\ HGet(resp.Header, "Content-Length") = ByteLen(resp.Body.bytes)
        /\ ContentEncoding(entry) # "" => ContentEncoding(resp) = ""

\* C5 amended: after a successful rewrite the body is uncompressed JSON,
\* Content-Length is the length of the new body, and Content-Encoding is
\* absent whenever it was "gzip" on the input and the transport had not
\* already decompressed the body; otherwise it is as it was on the input.
C5_Framing ==
    Success =>
        /\ resp.Body.bytes.enc = "identity"
        /\ resp.Body.bytes.text.kind = "envelope"
        /\ HGet(resp.Header, "Content-Length") = ByteLen(resp.Body.bytes)
        /\ IF ContentEncoding(entry) = "gzip" /\ ~entry.Uncompressed
           THEN "Content-Encoding" \notin DOMAIN resp.Header
           ELSE ContentEncoding(resp) = ContentEncoding(entry)

\* A gzip response is rewritten into a shorter uncompressed one
C5_Witness ==
    /\ Success
    /\ ContentEncoding(entry) = "gzip"
    /\ entry.Body.bytes.enc = "gzip"
    /\ ContentEncoding(resp) = ""
    /\ resp.Body.bytes.enc = "identity"
    /\ resp.Header["Content-Length"] < entry.Header["Content-Length"]
    /\ ~resp.Body.closed

====
